---- MODULE Spec2Model ----
(***************************************************************************)
(* A model of iamy's account model and AWS fetcher (src/iamy/models.go).   *)
(*                                                                         *)
(* Strings are sequences of one-character strings, so that the prefix,     *)
(* substring and regular-expression operations of the code are computed    *)
(* and not assumed.                                                        *)
(*                                                                         *)
(* Specifications:                                                         *)
(*   SpecAccount     NewAccountFromString / Account.String on bounded      *)
(*                   account strings                                       *)
(*   SpecClassifier  isSkippableManagedResource on bounded inputs and      *)
(*                   configurations                                        *)
(*   SpecVersions    the managed-policy iteration of populateIamData on    *)
(*                   bounded version lists                                 *)
(*   Spec            AwsFetcher.Fetch: init, ownership index, the IAM and  *)
(*                   S3 goroutines, the enrichment goroutines, the join    *)
(***************************************************************************)
EXTENDS Integers, Sequences, FiniteSets, TLC

VARIABLES
    probe,      \* the pure-function harness: input, stage and outputs
    world,      \* the AWS account the fetcher runs against
    config,     \* AwsFetcher's exported configuration fields
    fetchPc,    \* position of Fetch's own goroutine
    result,     \* what Fetch returned: [err, data]
    managed,    \* a.cfn: the ownership index built by PopulateMangedResourceData
    data,       \* a.data: the AccountData being populated
    iam,        \* the IAM goroutine: position, locals of fetchIamData, listing cursors
    s3,         \* the S3 goroutine: position, listing cursor
    iamErr,     \* Fetch's local iamErr
    s3Err,      \* Fetch's local s3Err
    lookups,    \* enrichment goroutines in flight (descriptionFetchWaitGroup's count)
    descriptionFetchError   \* a.descriptionFetchError

vars == <<probe, world, config, fetchPc, result, managed, data, iam, s3, iamErr, s3Err,
          lookups, descriptionFetchError>>

fetchVars == <<world, config, fetchPc, result, managed, data, iam, s3, iamErr, s3Err,
               lookups, descriptionFetchError>>

(***************************************************************************)
(* Strings                                                                 *)
(***************************************************************************)
Digits == {"0", "1", "2", "3", "4", "5", "6", "7", "8", "9"}

Lower == {"a", "b", "c", "d", "e", "f", "g", "h", "i", "j", "k", "l", "m",
          "n", "o", "p", "q", "r", "s", "t", "u", "v", "w", "x", "y", "z"}

Upper == {"A", "B", "C", "D", "E", "F", "G", "H", "I", "J", "K", "L", "M",
          "N", "O", "P", "Q", "R", "S", "T", "U", "V", "W", "X", "Y", "Z"}

\* the regular expression class \w
WordChars == Digits \cup Lower \cup Upper \cup {"_"}

\* the regular expression class [\w-]
WordOrHyphen == WordChars \cup {"-"}

AllIn(s, chars) == \A i \in 1..Len(s) : s[i] \in chars

\* strings.HasPrefix
HasPrefix(s, prefix) ==
    /\ Len(prefix) <= Len(s)
    /\ SubSeq(s, 1, Len(prefix)) = prefix

\* strings.TrimPrefix
TrimPrefix(s, prefix) ==
    IF HasPrefix(s, prefix) THEN SubSeq(s, Len(prefix) + 1, Len(s)) ELSE s

\* strings.Contains
Contains(s, substr) ==
    \E i \in 0..(Len(s) - Len(substr)) : SubSeq(s, i + 1, i + Len(substr)) = substr

SeqMax(S) == CHOOSE x \in S : \A y \in S : y <= x

(***************************************************************************)
(* Account: String and NewAccountFromString                                *)
(***************************************************************************)
\* a panic: the call produces no value
Panic == [panic |-> TRUE]

\* Account.String
AccountString(a) ==
    IF a.Alias # <<>> THEN a.Alias \o <<"-">> \o a.Id ELSE a.Id

\* accountReg with \d* in place of \d+
AccountRegStarDigits(s) ==
    LET aliasLens == {k \in 1..(Len(s) - 1) :
                        /\ AllIn(SubSeq(s, 1, k), WordOrHyphen)
                        /\ s[k + 1] = "-"
                        /\ AllIn(SubSeq(s, k + 2, Len(s)), Digits)}
    IN  IF aliasLens # {}
        THEN LET k == SeqMax(aliasLens)
             IN  << <<s, SubSeq(s, 1, k + 1), SubSeq(s, 1, k), SubSeq(s, k + 2, Len(s))>> >>
        ELSE IF AllIn(s, Digits)
        THEN << <<s, <<>>, <<>>, s>> >>
        ELSE <<>>

\* accountReg.FindAllStringSubmatch(s, -1) for ^(([\w-]+)-)?(\d+)$ : the list of
\* matches, each <<whole, group 1, group 2, group 3>>.  The expression is
\* anchored at both ends, so there is at most one match.  The optional group is
\* tried first and [\w-]+ is greedy: the longest alias that lets the rest match
\* is taken; a group that takes no part in the match is the empty string.
AccountReg(s) ==
    LET aliasLens == {k \in 1..(Len(s) - 2) :
                        /\ AllIn(SubSeq(s, 1, k), WordOrHyphen)
                        /\ s[k + 1] = "-"
                        /\ AllIn(SubSeq(s, k + 2, Len(s)), Digits)}
    IN  IF aliasLens # {}
        THEN LET k == SeqMax(aliasLens)
             IN  << <<s, SubSeq(s, 1, k + 1), SubSeq(s, 1, k), SubSeq(s, k + 2, Len(s))>> >>
        ELSE IF Len(s) > 0 /\ AllIn(s, Digits)
        THEN << <<s, <<>>, <<>>, s>> >>
        ELSE <<>>

\* NewAccountFromString with the alias taken from group 1 (which holds the hyphen)
NewAccountFromStringGroup1(s) ==
    LET res == AccountReg(s)
    IN  IF Len(res) = 0 THEN Panic
        ELSE [Alias |-> res[1][2], Id |-> res[1][4]]

\* NewAccountFromString: the Account, or Panic
NewAccountFromString(s) ==
    LET res == AccountReg(s)
    IN  IF Len(res) = 0 THEN Panic
        ELSE IF Len(res[1]) = 4 THEN [Alias |-> res[1][3], Id |-> res[1][4]]
        ELSE IF Len(res[1]) = 3 THEN [Alias |-> <<>>, Id |-> res[1][2]]
        ELSE Panic

(***************************************************************************)
(* Resource identifiers                                                    *)
(***************************************************************************)
ArnIamPrefix == <<"a", "r", "n", ":", "a", "w", "s", ":", "i", "a", "m", ":", ":">>

PolicyKey == <<"p", "o", "l", "i", "c", "y">>

\* Account.arnFor
arnFor(a, key, path, name) == ArnIamPrefix \o a.Id \o <<":">> \o key \o path \o name

\* the expansion applied to every argument, full identifiers included
policyArnFromStringAlways(a, nameOrArn) ==
    ArnIamPrefix \o a.Id \o <<":">> \o PolicyKey \o <<"/">> \o nameOrArn

\* Account.policyArnFromString
policyArnFromString(a, nameOrArn) ==
    IF HasPrefix(nameOrArn, <<"a", "r", "n", ":">>) THEN nameOrArn
    ELSE ArnIamPrefix \o a.Id \o <<":">> \o PolicyKey \o <<"/">> \o nameOrArn

\* the reference stored as it was delivered
normalisePolicyArnKeep(a, arn) == arn

\* Account.normalisePolicyArn
normalisePolicyArn(a, arn) ==
    TrimPrefix(arn, ArnIamPrefix \o a.Id \o <<":">> \o PolicyKey \o <<"/">>)

(***************************************************************************)
(* The ownership classifier                                                *)
(***************************************************************************)
\* CfnResourceType values
CfnIamUser == "AWS::IAM::User"
CfnIamGroup == "AWS::IAM::Group"
CfnIamRole == "AWS::IAM::Role"
CfnIamPolicy == "AWS::IAM::ManagedPolicy"
CfnInstanceProfile == "AWS::IAM::InstanceProfile"
CfnS3Bucket == "AWS::S3::Bucket"

\* the markers of a service-linked role
AWSServiceRole == <<"A", "W", "S", "S", "e", "r", "v", "i", "c", "e", "R", "o", "l", "e">>
AwsServiceRolePath ==
    <<"a", "w", "s", "-", "s", "e", "r", "v", "i", "c", "e", "-", "r", "o", "l", "e">>

\* map[string]string{}
NoTags == <<>>

\* a.cfn.IsManagedResource: membership in the index for the kind; the index is
\* empty when PopulateMangedResourceData has not run
IsManagedResource(index, cfnType, resourceIdentifier) ==
    <<cfnType, resourceIdentifier>> \in index

\* the first index i, in range order, with keys[i] a key of tags; 0 if none
RECURSIVE FirstTagged(_, _, _)
FirstTagged(keys, tags, i) ==
    IF i > Len(keys) THEN 0
    ELSE IF keys[i] \in DOMAIN tags THEN i
    ELSE FirstTagged(keys, tags, i + 1)

\* the first index i, in range order, with prefixes[i] a prefix of path; 0 if none
RECURSIVE FirstPrefix(_, _, _)
FirstPrefix(prefixes, path, i) ==
    IF i > Len(prefixes) THEN 0
    ELSE IF HasPrefix(path, prefixes[i]) THEN i
    ELSE FirstPrefix(prefixes, path, i + 1)

Keep == [skip |-> FALSE, reason |-> <<>>]

\* isSkippableManagedResource with the SkipTagged loop ahead of the IncludeTagged loop
isSkippableSkipFirst(f, cfnType, resourceIdentifier, tags, resourcePath) ==
    LET inc == FirstTagged(f.IncludeTagged, tags, 1)
        skp == FirstTagged(f.SkipTagged, tags, 1)
        pre == FirstPrefix(f.SkipPathPrefixes, resourcePath, 1)
    IN  IF skp > 0
        THEN [skip |-> TRUE,
              reason |-> <<"tagged", resourceIdentifier, f.SkipTagged[skp],
                           tags[f.SkipTagged[skp]]>>]
        ELSE IF Len(f.IncludeTagged) > 0 /\ inc > 0 THEN Keep
        ELSE IF pre > 0
        THEN [skip |-> TRUE,
              reason |-> <<"path", resourceIdentifier, resourcePath, f.SkipPathPrefixes[pre]>>]
        ELSE IF IsManagedResource(f.managed, cfnType, resourceIdentifier)
        THEN [skip |-> TRUE, reason |-> <<"cloudformation", resourceIdentifier>>]
        ELSE IF \/ Contains(resourceIdentifier, AWSServiceRole)
                \/ Contains(resourceIdentifier, AwsServiceRolePath)
        THEN [skip |-> TRUE, reason |-> <<"service role", resourceIdentifier>>]
        ELSE Keep

\* AwsFetcher.isSkippableManagedResource: (skip, reason).  f holds the fetcher's
\* IncludeTagged, SkipTagged, SkipPathPrefixes and ownership index.
isSkippableManagedResource(f, cfnType, resourceIdentifier, tags, resourcePath) ==
    LET inc == FirstTagged(f.IncludeTagged, tags, 1)
        skp == FirstTagged(f.SkipTagged, tags, 1)
        pre == FirstPrefix(f.SkipPathPrefixes, resourcePath, 1)
    IN  IF Len(f.IncludeTagged) > 0 /\ inc > 0 THEN Keep
        ELSE IF skp > 0
        THEN [skip |-> TRUE,
              reason |-> <<"tagged", resourceIdentifier, f.SkipTagged[skp],
                           tags[f.SkipTagged[skp]]>>]
        ELSE IF pre > 0
        THEN [skip |-> TRUE,
              reason |-> <<"path", resourceIdentifier, resourcePath, f.SkipPathPrefixes[pre]>>]
        ELSE IF IsManagedResource(f.managed, cfnType, resourceIdentifier)
        THEN [skip |-> TRUE, reason |-> <<"cloudformation", resourceIdentifier>>]
        ELSE IF \/ Contains(resourceIdentifier, AWSServiceRole)
                \/ Contains(resourceIdentifier, AwsServiceRolePath)
        THEN [skip |-> TRUE, reason |-> <<"service role", resourceIdentifier>>]
        ELSE Keep

(***************************************************************************)
(* Policy documents and managed-policy versions                            *)
(***************************************************************************)
\* nil: no error, no value
Nil == <<>>

\* JSON texts: well-formed documents, one malformed text and the empty text
WellFormedJson == {"{A}", "{B}", "{C}", "{D}", "{E}"}
JsonTexts == WellFormedJson \cup {"{", ""}

\* NewPolicyDocumentFromEncodedJson / NewPolicyDocumentFromJson: (document, error)
NewPolicyDocument(text) ==
    IF text \in WellFormedJson
    THEN [doc |-> <<"PolicyDocument", text>>, err |-> Nil]
    ELSE [doc |-> Nil, err |-> <<"invalid policy json">>]

\* findDefaultPolicyVersion: the first version flagged default; panics if none is
RECURSIVE findDefaultFrom(_, _)
findDefaultFrom(versions, i) ==
    IF i > Len(versions) THEN Panic
    ELSE IF versions[i].IsDefaultVersion THEN versions[i]
    ELSE findDefaultFrom(versions, i + 1)

\* the first version taken when none is flagged default
findDefaultOrFirst(versions) ==
    IF findDefaultFrom(versions, 1) # Panic THEN findDefaultFrom(versions, 1)
    ELSE IF versions = <<>> THEN Panic
    ELSE versions[1]

findDefaultPolicyVersion(versions) == findDefaultFrom(versions, 1)

\* findNonDefaultPolicyVersionIds
RECURSIVE findNonDefaultPolicyVersionIds(_)
findNonDefaultPolicyVersionIds(versions) ==
    IF versions = <<>> THEN <<>>
    ELSE (IF ~Head(versions).IsDefaultVersion THEN <<Head(versions).VersionId>> ELSE <<>>)
         \o findNonDefaultPolicyVersionIds(Tail(versions))

\* the loop of findOldestPolicyVersionId from index i on, oldest being the
\* oldest version seen so far
RECURSIVE oldestFrom(_, _, _)
oldestFrom(versions, i, oldest) ==
    IF i > Len(versions) THEN oldest
    ELSE oldestFrom(versions, i + 1,
                    IF versions[i].CreateDate < oldest.CreateDate THEN versions[i] ELSE oldest)

\* findOldestPolicyVersionId with the comparison reversed (After for Before)
findNewestPolicyVersionId(versions) ==
    LET newest[i \in 1..Len(versions)] ==
            IF i = 1 THEN versions[1]
            ELSE IF versions[i].CreateDate > newest[i - 1].CreateDate
                 THEN versions[i] ELSE newest[i - 1]
    IN  newest[Len(versions)].VersionId

\* findOldestPolicyVersionId (an empty list panics on versions[0])
findOldestPolicyVersionId(versions) ==
    IF Len(versions) = 0 THEN Panic
    ELSE oldestFrom(versions, 2, versions[1]).VersionId

\* One iteration of the managed-policy loop of populateIamData for policyResp:
\* first classification (no tags), default version, document, the Policy record,
\* the description lookup, the tags of the batched lookup, second classification.
\*   outcome "skipped"  continue (pass says which classification skipped)
\*           "panic"    no default version
\*           "error"    return err
\*           "added"    a.data.addPolicy(&p)
\* dispatched: marshalPolicyDescriptionAsync was called.
PolicyIteration(f, skipDescriptions, policyResp, policyTags) ==
    LET first == isSkippableManagedResource(f, CfnIamPolicy, policyResp.PolicyName,
                                            NoTags, policyResp.Path)
        defaultPolicyVersion == findDefaultPolicyVersion(policyResp.PolicyVersionList)
        parsed == NewPolicyDocument(defaultPolicyVersion.Document)
        tags == IF policyResp.Arn \in DOMAIN policyTags
                THEN policyTags[policyResp.Arn] ELSE NoTags
        p == [ Name |-> policyResp.PolicyName,
               Path |-> policyResp.Path,
               oldestVersionId |-> findOldestPolicyVersionId(policyResp.PolicyVersionList),
               numberOfVersions |-> Len(policyResp.PolicyVersionList),
               nondefaultVersionIds |->
                   findNonDefaultPolicyVersionIds(policyResp.PolicyVersionList),
               Policy |-> parsed.doc,
               Description |-> "",
               Tags |-> tags ]
        second == isSkippableManagedResource(f, CfnIamPolicy, policyResp.PolicyName,
                                             tags, policyResp.Path)
        none == [outcome |-> "skipped", pass |-> 0, reason |-> <<>>, err |-> Nil,
                 dispatched |-> FALSE, classified |-> TRUE, policy |-> Nil]
    IN  IF first.skip
        THEN [none EXCEPT !.pass = 1, !.reason = first.reason]
        ELSE IF defaultPolicyVersion = Panic
        THEN [none EXCEPT !.outcome = "panic"]
        ELSE IF parsed.err # Nil
        THEN [none EXCEPT !.outcome = "error", !.err = parsed.err]
        ELSE IF second.skip
        THEN [none EXCEPT !.pass = 2, !.reason = second.reason,
                          !.dispatched = ~skipDescriptions]
        ELSE [none EXCEPT !.outcome = "added", !.dispatched = ~skipDescriptions,
                          !.policy = p]

(***************************************************************************)
(* The loops of populateIamData, populateInstanceProfileData, fetchS3Data  *)
(***************************************************************************)
\* populateInlinePolicies: the inline policies appended to target, and the error
RECURSIVE populateInlinePolicies(_, _)
populateInlinePolicies(source, target) ==
    IF source = <<>> THEN [target |-> target, err |-> Nil]
    ELSE LET parsed == NewPolicyDocument(Head(source).PolicyDocument)
         IN  IF parsed.err # Nil THEN [target |-> target, err |-> parsed.err]
             ELSE populateInlinePolicies(
                      Tail(source),
                      Append(target, [Name |-> Head(source).PolicyName, Policy |-> parsed.doc]))

\* the attached managed policies of a principal, each through normalisePolicyArn
NormalisedPolicies(account, attached) ==
    [i \in 1..Len(attached) |-> normalisePolicyArn(account, attached[i])]

\* the result of a loop iteration that appends nothing
NoRecord == [outcome |-> "skipped", reason |-> <<>>, err |-> Nil, dispatched |-> FALSE,
             classified |-> TRUE, record |-> Nil]

\* one iteration of the user loop of populateIamData
UserIteration(f, account, userResp) ==
    LET cls == isSkippableManagedResource(f, CfnIamUser, userResp.UserName, userResp.Tags,
                                          userResp.Path)
        inline == populateInlinePolicies(userResp.UserPolicyList, <<>>)
    IN  IF cls.skip THEN [NoRecord EXCEPT !.reason = cls.reason]
        ELSE IF inline.err # Nil THEN [NoRecord EXCEPT !.outcome = "error", !.err = inline.err]
        ELSE [NoRecord EXCEPT
                !.outcome = "added",
                !.record = [ Name |-> userResp.UserName,
                             Path |-> userResp.Path,
                             Groups |-> userResp.GroupList,
                             Policies |-> NormalisedPolicies(account,
                                                             userResp.AttachedManagedPolicies),
                             InlinePolicies |-> inline.target,
                             Tags |-> userResp.Tags ]]

\* the group loop without the continue after a skip
GroupIterationNoContinue(f, account, groupResp) ==
    LET inline == populateInlinePolicies(groupResp.GroupPolicyList, <<>>)
    IN  IF inline.err # Nil THEN [NoRecord EXCEPT !.outcome = "error", !.err = inline.err]
        ELSE [NoRecord EXCEPT
                !.outcome = "added",
                !.record = [ Name |-> groupResp.GroupName,
                             Path |-> groupResp.Path,
                             Policies |-> NormalisedPolicies(account,
                                                             groupResp.AttachedManagedPolicies),
                             InlinePolicies |-> inline.target ]]

\* one iteration of the group loop of populateIamData
GroupIteration(f, account, groupResp) ==
    LET cls == isSkippableManagedResource(f, CfnIamGroup, groupResp.GroupName, NoTags,
                                          groupResp.Path)
        inline == populateInlinePolicies(groupResp.GroupPolicyList, <<>>)
    IN  IF cls.skip THEN [NoRecord EXCEPT !.reason = cls.reason]
        ELSE IF inline.err # Nil THEN [NoRecord EXCEPT !.outcome = "error", !.err = inline.err]
        ELSE [NoRecord EXCEPT
                !.outcome = "added",
                !.record = [ Name |-> groupResp.GroupName,
                             Path |-> groupResp.Path,
                             Policies |-> NormalisedPolicies(account,
                                                             groupResp.AttachedManagedPolicies),
                             InlinePolicies |-> inline.target ]]

\* one iteration of the role loop of populateIamData: marshalRoleAsync is called
\* before the trust policy and the inline policies are parsed
RoleIteration(f, skipDescriptions, account, roleResp) ==
    LET cls == isSkippableManagedResource(f, CfnIamRole, roleResp.RoleName, roleResp.Tags,
                                          roleResp.Path)
        trust == NewPolicyDocument(roleResp.AssumeRolePolicyDocument)
        inline == populateInlinePolicies(roleResp.RolePolicyList, <<>>)
    IN  IF cls.skip THEN [NoRecord EXCEPT !.reason = cls.reason]
        ELSE IF trust.err # Nil
        THEN [NoRecord EXCEPT !.outcome = "error", !.err = trust.err,
                              !.dispatched = ~skipDescriptions]
        ELSE IF inline.err # Nil
        THEN [NoRecord EXCEPT !.outcome = "error", !.err = inline.err,
                              !.dispatched = ~skipDescriptions]
        ELSE [NoRecord EXCEPT
                !.outcome = "added",
                !.dispatched = ~skipDescriptions,
                !.record = [ Name |-> roleResp.RoleName,
                             Path |-> roleResp.Path,
                             Description |-> "",
                             MaxSessionDuration |-> 0,
                             AssumeRolePolicyDocument |-> trust.doc,
                             Policies |-> NormalisedPolicies(account,
                                                             roleResp.AttachedManagedPolicies),
                             InlinePolicies |-> inline.target ]]

\* one iteration of the loop of populateInstanceProfileData
ProfileIteration(f, profileResp) ==
    LET cls == isSkippableManagedResource(f, CfnInstanceProfile,
                                          profileResp.InstanceProfileName, NoTags,
                                          profileResp.Path)
    IN  IF cls.skip THEN [NoRecord EXCEPT !.reason = cls.reason]
        ELSE [NoRecord EXCEPT
                !.outcome = "added",
                !.record = [ Name |-> profileResp.InstanceProfileName,
                             Path |-> profileResp.Path,
                             Roles |-> profileResp.Roles ]]

DontSkipS3 == <<"_", "_", "D", "O", "N", "T", "S", "K", "I", "P", "S", "3", "_", "_">>

\* fetchS3Data with the classifier called before the test for an empty policy
BucketIterationClassifyFirst(f, b) ==
    LET cls == isSkippableManagedResource(f, CfnS3Bucket, b.name, b.tags, DontSkipS3)
        parsed == NewPolicyDocument(b.policyJson)
    IN  IF cls.skip THEN [NoRecord EXCEPT !.reason = cls.reason]
        ELSE IF b.policyJson = "" THEN [NoRecord EXCEPT !.outcome = "no policy"]
        ELSE IF parsed.err # Nil
        THEN [NoRecord EXCEPT !.outcome = "error",
                              !.err = <<"Error creating Policy document">> \o parsed.err]
        ELSE [NoRecord EXCEPT
                !.outcome = "added",
                !.record = [BucketName |-> b.name, Policy |-> parsed.doc]]

\* one iteration of the bucket loop of fetchS3Data
BucketIteration(f, b) ==
    LET cls == isSkippableManagedResource(f, CfnS3Bucket, b.name, b.tags, DontSkipS3)
        parsed == NewPolicyDocument(b.policyJson)
    IN  IF b.policyJson = ""
        THEN [NoRecord EXCEPT !.outcome = "no policy", !.classified = FALSE]
        ELSE IF cls.skip THEN [NoRecord EXCEPT !.reason = cls.reason]
        ELSE IF parsed.err # Nil
        THEN [NoRecord EXCEPT !.outcome = "error",
                              !.err = <<"Error creating Policy document">> \o parsed.err]
        ELSE [NoRecord EXCEPT
                !.outcome = "added",
                !.record = [BucketName |-> b.name, Policy |-> parsed.doc]]

(***************************************************************************)
(* Bounds                                                                  *)
(***************************************************************************)
\* longest account string parsed
MaxAccountLen == 5

\* the characters of the account strings: a letter, the underscore, the hyphen,
\* two digits and a character outside [\w-]
AccountChars == {"a", "_", "-", "0", "7", "."}

RECURSIVE StringsUpTo(_, _)
StringsUpTo(chars, n) ==
    IF n = 0 THEN {<<>>}
    ELSE LET shorter == StringsUpTo(chars, n - 1)
         IN  shorter \cup {Append(s, c) : s \in {t \in shorter : Len(t) = n - 1}, c \in chars}

AccountStrings == StringsUpTo(AccountChars, MaxAccountLen)

None == "none"

\* the fetcher's variables while a pure function is exercised
FetchParked ==
    /\ world = None /\ config = None /\ fetchPc = None /\ result = None /\ managed = None
    /\ data = None /\ iam = None /\ s3 = None /\ iamErr = None /\ s3Err = None
    /\ lookups = None /\ descriptionFetchError = None

\* most tags on a classified resource
MaxTags == 2

(***************************************************************************)
(* SpecClassifier: classify one resource under one configuration           *)
(***************************************************************************)
TagKeys == {"keep", "stack", "team"}

TagSets == UNION {[keys -> {"stack-a"}] : keys \in {k \in SUBSET TagKeys : Cardinality(k) <= MaxTags}}

ClassifierIds ==
    { <<"r">>,
      <<"s", "t">>,
      <<"x">> \o AWSServiceRole \o <<"F">>,
      AwsServiceRolePath \o <<"/", "e">> }

ClassifierPaths ==
    { <<"/">>, <<"/", "c", "/">>, <<"/", "c", "/", "d", "/">>, <<"/", "d", "/">> }

ClassifierKinds == {CfnIamUser, CfnIamRole}

ClassifierConfigs ==
    [ IncludeTagged : { <<>>, <<"keep">>, <<"team", "keep">> },
      SkipTagged : { <<>>, <<"stack">>, <<"keep", "stack">> },
      SkipPathPrefixes : { <<>>,
                           << <<"/", "c", "/">> >>,
                           << <<"/", "x", "/">>, <<"/", "c", "/", "d">> >> },
      managed : { {},
                  {<<CfnIamRole, <<"r">>>>},
                  {<<CfnIamUser, <<"r">>>>, <<CfnIamRole, <<"s", "t">>>>} } ]

InitClassifier ==
    /\ probe \in [ f : ClassifierConfigs, kind : ClassifierKinds, id : ClassifierIds,
                   tags : TagSets, path : ClassifierPaths, stage : {"input"},
                   out : {None} ]
    /\ FetchParked

Classify ==
    /\ probe.stage = "input"
    /\ probe' = [probe EXCEPT
                    !.stage = "classified",
                    !.out = isSkippableManagedResource(probe.f, probe.kind, probe.id,
                                                       probe.tags, probe.path)]
    /\ UNCHANGED fetchVars

NextClassifier == Classify

SpecClassifier == InitClassifier /\ [][NextClassifier]_vars

\* the conditions of the six rules, each stated on the input alone
HasIncludeTag(p) == \E i \in 1..Len(p.f.IncludeTagged) : p.f.IncludeTagged[i] \in DOMAIN p.tags
HasSkipTag(p) == \E i \in 1..Len(p.f.SkipTagged) : p.f.SkipTagged[i] \in DOMAIN p.tags
PathSkipped(p) ==
    \E i \in 1..Len(p.f.SkipPathPrefixes) : HasPrefix(p.path, p.f.SkipPathPrefixes[i])
InIndex(p) == <<p.kind, p.id>> \in p.f.managed
HasMarker(p) == Contains(p.id, AWSServiceRole) \/ Contains(p.id, AwsServiceRolePath)

\* the number of the first rule, 1..6, that applies
FirstRule(p) ==
    CHOOSE n \in 1..6 :
        /\ <<HasIncludeTag(p), HasSkipTag(p), PathSkipped(p), InIndex(p), HasMarker(p), TRUE>>[n]
        /\ \A m \in 1..(n - 1) :
            ~<<HasIncludeTag(p), HasSkipTag(p), PathSkipped(p), InIndex(p), HasMarker(p), TRUE>>[m]

\* C5: isSkippableManagedResource returns the result of the ordered procedure:
\* force-include tag -> not skipped; else skip tag -> skipped; else skip path
\* prefix -> skipped; else in the ownership index -> skipped; else service-linked
\* role marker -> skipped; else not skipped.  The reason names the rule that decided.
C5_OrderedProcedure ==
    probe.stage = "classified" =>
        LET n == FirstRule(probe)
        IN  /\ probe.out.skip = (n \in 2..5)
            /\ n = 2 => probe.out.reason[1] = "tagged"
            /\ n = 3 => probe.out.reason[1] = "path"
            /\ n = 4 => probe.out.reason[1] = "cloudformation"
            /\ n = 5 => probe.out.reason[1] = "service role"
            /\ n \in {1, 6} => probe.out.reason = <<>>

\* a resource with a force-include tag and a skip tag, under a skipped path, has
\* been classified and kept
C5_Witness ==
    /\ probe.stage = "classified"
    /\ HasIncludeTag(probe) /\ HasSkipTag(probe) /\ PathSkipped(probe)
    /\ probe.out.skip = FALSE

\* most versions of a managed policy
MaxVersions == 3

(***************************************************************************)
(* The account the fetcher runs against                                    *)
(***************************************************************************)
AccountId == <<"1", "2">>

Root == <<"/">>
CfnPath == <<"/", "c", "f", "n", "/">>

\* the fetcher's tag and path configuration, with the ownership index given
FetcherConfig(index) ==
    [ IncludeTagged |-> <<"keep">>,
      SkipTagged |-> <<"stack">>,
      SkipPathPrefixes |-> <<CfnPath>>,
      managed |-> index ]

TheAccount == [Id |-> AccountId, Alias |-> <<"d", "e", "v">>]

\* the resources that CloudFormation stacks of the account own
ManagedByCfn == { <<CfnS3Bucket, <<"l", "o", "g", "s">>>>, <<CfnInstanceProfile, <<"w", "e", "b">>>> }

OwnPolicyArn(path, name) == arnFor(TheAccount, PolicyKey, path, name)
AwsReadOnlyArn == <<"a", "r", "n", ":", "a", "w", "s", ":", "i", "a", "m", ":", ":", "a", "w", "s", ":", "p", "o", "l", "i", "c", "y", "/", "r", "o">>
OtherAccountArn == <<"a", "r", "n", ":", "a", "w", "s", ":", "i", "a", "m", ":", ":", "3", "4", ":", "p", "o", "l", "i", "c", "y", "/", "p">>

StackTag == [k \in {"stack"} |-> "stack-a"]
KeepTag == [k \in {"keep"} |-> "yes"]

\* UserDetailList entries, in listing order: skipped by its tag; force-included
\* (with a skip tag, under a skipped path), no groups, no policies; kept, with a
\* malformed inline policy
UserCatalog ==
    << [ UserName |-> <<"b", "o", "b">>, Path |-> Root, Tags |-> StackTag, GroupList |-> <<>>,
         AttachedManagedPolicies |-> <<>>, UserPolicyList |-> <<>> ],
       [ UserName |-> <<"a", "n", "n">>, Path |-> CfnPath, Tags |-> KeepTag @@ StackTag,
         GroupList |-> <<>>, AttachedManagedPolicies |-> <<>>, UserPolicyList |-> <<>> ],
       [ UserName |-> <<"e", "v", "e">>, Path |-> Root, Tags |-> NoTags, GroupList |-> <<<<"d", "e", "v">>>>,
         AttachedManagedPolicies |-> <<AwsReadOnlyArn>>,
         UserPolicyList |-> << [PolicyName |-> <<"i", "0">>, PolicyDocument |-> "{"] >> ] >>

\* GroupDetailList entries: skipped by its path; kept, with an own-account and
\* a service-managed policy attached
GroupCatalog ==
    << [ GroupName |-> <<"o", "p", "s">>, Path |-> CfnPath, AttachedManagedPolicies |-> <<>>,
         GroupPolicyList |-> <<>> ],
       [ GroupName |-> <<"d", "e", "v">>, Path |-> Root,
         AttachedManagedPolicies |-> <<OwnPolicyArn(Root, <<"p">>), AwsReadOnlyArn>>,
         GroupPolicyList |-> << [PolicyName |-> <<"i", "1">>, PolicyDocument |-> "{A}"] >> ] >>

\* RoleDetailList entries: a service-linked role; kept, with policies attached;
\* kept; kept, with a malformed trust policy
RoleCatalog ==
    << [ RoleName |-> <<"A", "W", "S", "S", "e", "r", "v", "i", "c", "e", "R", "o", "l", "e", "F", "o", "r", "X">>, Path |-> <<"/", "a", "w", "s", "-", "s", "e", "r", "v", "i", "c", "e", "-", "r", "o", "l", "e", "/">>, Tags |-> NoTags,
         AssumeRolePolicyDocument |-> "{A}", AttachedManagedPolicies |-> <<>>,
         RolePolicyList |-> <<>> ],
       [ RoleName |-> <<"a", "p", "p">>, Path |-> Root, Tags |-> NoTags,
         AssumeRolePolicyDocument |-> "{B}",
         AttachedManagedPolicies |-> <<OtherAccountArn, OwnPolicyArn(Root, <<"q">>)>>,
         RolePolicyList |-> <<>> ],
       [ RoleName |-> <<"c", "i">>, Path |-> Root, Tags |-> NoTags,
         AssumeRolePolicyDocument |-> "{C}", AttachedManagedPolicies |-> <<>>,
         RolePolicyList |-> <<>> ],
       [ RoleName |-> <<"j", "o", "b">>, Path |-> Root, Tags |-> NoTags,
         AssumeRolePolicyDocument |-> "{", AttachedManagedPolicies |-> <<>>,
         RolePolicyList |-> <<>> ] >>

Version(id, isDefault, date, doc) ==
    [VersionId |-> id, IsDefaultVersion |-> isDefault, CreateDate |-> date, Document |-> doc]

PolicyDetail(name, path, versions) ==
    [ PolicyName |-> name, Path |-> path, Arn |-> OwnPolicyArn(path, name),
      PolicyVersionList |-> versions ]

\* Policies entries: under a skipped path, tagged force-include; kept, three
\* versions; tagged skip; malformed default document; no default version; under
\* a skipped path, no default version
PolicyCatalog ==
    << PolicyDetail(<<"n", "e", "t">>, CfnPath, <<Version("v1", TRUE, 1, "{A}")>>),
       PolicyDetail(<<"p">>, Root, << Version("v1", FALSE, 1, "{A}"),
                                   Version("v2", TRUE, 2, "{B}"),
                                   Version("v3", FALSE, 3, "{C}") >>),
       PolicyDetail(<<"q">>, Root, <<Version("v1", TRUE, 1, "{C}")>>),
       PolicyDetail(<<"b", "a", "d">>, Root, << Version("v1", FALSE, 2, "{A}"),
                                     Version("v2", TRUE, 1, "{") >>),
       PolicyDetail(<<"z">>, Root, <<Version("v1", FALSE, 1, "{A}")>>),
       PolicyDetail(<<"y">>, CfnPath, <<Version("v1", FALSE, 1, "{B}")>>) >>

\* what getMultiplePolicyTags resolves: identifier -> tags, for the tagged policies
AccountPolicyTags ==
    (OwnPolicyArn(CfnPath, <<"n", "e", "t">>) :> KeepTag)
    @@ (OwnPolicyArn(Root, <<"q">>) :> StackTag)

\* InstanceProfiles entries: owned by a stack; kept
ProfileCatalog ==
    << [ InstanceProfileName |-> <<"w", "e", "b">>, Path |-> Root, Roles |-> <<>> ],
       [ InstanceProfileName |-> <<"d", "b">>, Path |-> Root, Roles |-> <<<<"a", "p", "p">>>> ] >>

\* listAllBuckets entries: no policy; owned by a stack; kept; malformed policy
BucketCatalog ==
    << [ name |-> <<"t", "m", "p">>, policyJson |-> "", tags |-> NoTags ],
       [ name |-> <<"l", "o", "g", "s">>, policyJson |-> "{A}", tags |-> NoTags ],
       [ name |-> <<"w", "w", "w">>, policyJson |-> "{B}", tags |-> NoTags ],
       [ name |-> <<"o", "l", "d">>, policyJson |-> "{", tags |-> NoTags ] >>

(***************************************************************************)
(* Spec: AwsFetcher.Fetch                                                  *)
(*                                                                         *)
(* The listings deliver the catalogs' resources in catalog order, each at  *)
(* most once; which of them exist and into which page each falls is        *)
(* chosen as the loops reach them.  One loop iteration is one step.        *)
(***************************************************************************)
\* most pages of a paginated listing
MaxPages == 2

ErrMissingRegion == <<"could not find region configuration">>

\* the IAM goroutine before it starts: its position, the pages and the catalog
\* entries the listings have delivered so far, and populateIamDataErr
IdleIam == [pc |-> "idle", pages |-> 0, users |-> 0, groups |-> 0, roles |-> 0,
            policies |-> 0, profilePages |-> 0, profiles |-> 0,
            populateIamDataErr |-> Nil]

\* The account is either open: any of the catalogs' resources may exist and
\* any capability call may fail; or it is the account of the end-to-end case:
\* one user (force-include tag, no groups, no policies), one bucket with an
\* empty policy document, and capability calls that succeed.
OpenWorld ==
    [ open |-> TRUE, users |-> {}, groups |-> {}, roles |-> {}, policies |-> {},
      profiles |-> {}, buckets |-> {} ]

EndToEndAccount ==
    [ open |-> FALSE, users |-> {2}, groups |-> {}, roles |-> {}, policies |-> {},
      profiles |-> {}, buckets |-> {1} ]

\* entry j of a catalog is the next one its listing delivers after entry cursor
Delivers(existing, cursor, j) ==
    \/ world.open
    \/ /\ j \in existing
       /\ \A i \in existing : i <= cursor \/ i >= j

\* the listing has delivered every entry that exists
Exhausted(existing, cursor) == world.open \/ \A i \in existing : i <= cursor

\* the outcomes of a capability call: nil, and in the open account err
Outcomes(err) == IF world.open THEN {Nil, err} ELSE {Nil}

NoIteration == [name |-> <<>>, outcome |-> "none", classified |-> FALSE]

IdleS3 == [pc |-> "idle", buckets |-> 0, last |-> NoIteration]

\* an AccountData with no resources
EmptyData(account) ==
    [ Account |-> account, Users |-> <<>>, Groups |-> <<>>, Roles |-> <<>>,
      Policies |-> <<>>, InstanceProfiles |-> <<>>, BucketPolicies |-> <<>> ]

\* AccountData.addUser
addUser(a, u) == [a EXCEPT !.Users = Append(@, u)]

\* AccountData.addGroup
addGroup(a, g) == [a EXCEPT !.Groups = Append(@, g)]

\* AccountData.addInstanceProfile
addInstanceProfile(a, p) == [a EXCEPT !.InstanceProfiles = Append(@, p)]

\* AccountData.addBucketPolicy
addBucketPolicy(a, bp) == [a EXCEPT !.BucketPolicies = Append(@, bp)]

\* the loop of the Find functions over rs from index i on
RECURSIVE FindFrom(_, _, _, _)
FindFrom(rs, name, path, i) ==
    IF i > Len(rs) THEN [ok |-> FALSE, r |-> Nil]
    ELSE IF rs[i].Name = name /\ rs[i].Path = path THEN [ok |-> TRUE, r |-> rs[i]]
    ELSE FindFrom(rs, name, path, i + 1)

\* the loop of FindBucketPolicyByBucketName from index i on
RECURSIVE FindBucketFrom(_, _, _)
FindBucketFrom(rs, name, i) ==
    IF i > Len(rs) THEN [ok |-> FALSE, r |-> Nil]
    ELSE IF rs[i].BucketName = name THEN [ok |-> TRUE, r |-> rs[i]]
    ELSE FindBucketFrom(rs, name, i + 1)

\* AccountData.FindUserByName
FindUserByName(a, name, path) == FindFrom(a.Users, name, path, 1)

\* AccountData.FindGroupByName
FindGroupByName(a, name, path) == FindFrom(a.Groups, name, path, 1)

\* the last record of the name and path instead of the first
FindRoleByNameLast(a, name, path) ==
    LET hits == {i \in 1..Len(a.Roles) : a.Roles[i].Name = name /\ a.Roles[i].Path = path}
    IN  IF hits = {} THEN [ok |-> FALSE, r |-> Nil]
        ELSE [ok |-> TRUE, r |-> a.Roles[SeqMax(hits)]]

\* AccountData.FindRoleByName
FindRoleByName(a, name, path) == FindFrom(a.Roles, name, path, 1)

\* AccountData.FindPolicyByName
FindPolicyByName(a, name, path) == FindFrom(a.Policies, name, path, 1)

\* AccountData.FindInstanceProfileByName
FindInstanceProfileByName(a, name, path) == FindFrom(a.InstanceProfiles, name, path, 1)

\* AccountData.FindBucketPolicyByBucketName
FindBucketPolicyByBucketName(a, name) == FindBucketFrom(a.BucketPolicies, name, 1)

\* a role put in front of the ones collected
addRoleInFront(a, r) == [a EXCEPT !.Roles = <<r>> \o @]

\* AccountData.addRole
addRole(a, r) == [a EXCEPT !.Roles = Append(@, r)]

\* a policy collected twice
addPolicyTwice(a, p) == [a EXCEPT !.Policies = Append(Append(@, p), p)]

\* AccountData.addPolicy
addPolicy(a, p) == [a EXCEPT !.Policies = Append(@, p)]

\* Fetch has not returned
NotReturned == [returned |-> FALSE]

Init ==
    /\ probe = None
    /\ world \in {OpenWorld, EndToEndAccount}
    /\ config \in [ SkipFetchingPolicyAndRoleDescriptions : BOOLEAN,
                    HeuristicCfnMatching : BOOLEAN ]
    /\ fetchPc = "init"
    /\ result = NotReturned
    /\ managed = {}
    /\ data = EmptyData(Nil)
    /\ iam = IdleIam
    /\ s3 = IdleS3
    /\ iamErr = Nil
    /\ s3Err = Nil
    /\ lookups = {}
    /\ descriptionFetchError = Nil

\* the process has not been taken down by a panic
Running == fetchPc # "crashed"

\* errors.Wrap
Wrap(err, message) == <<message>> \o err

\* Fetch returns (nil, err)
ReturnError(err) ==
    /\ fetchPc' = "done"
    /\ result' = [returned |-> TRUE, data |-> Nil, err |-> err]

\* getAccount, given the outcomes of GetAwsAccountId and ListAccountAliases
getAccount(idErr, aliasErr, aliases) ==
    IF idErr = ErrMissingRegion
    THEN [account |-> Nil,
          err |-> <<"Error determining the AWS account id - check the AWS_REGION environment variable is set">>]
    ELSE IF idErr # Nil THEN [account |-> Nil, err |-> idErr]
    ELSE IF aliasErr # Nil THEN [account |-> Nil, err |-> aliasErr]
    ELSE [account |-> [Id |-> AccountId,
                       Alias |-> IF Len(aliases) > 0 THEN aliases[1] ELSE <<>>],
          err |-> Nil]

\* Fetch, lines 332-334: init
FetchInit ==
    /\ fetchPc = "init"
    /\ \E idErr \in Outcomes(ErrMissingRegion) \cup Outcomes(<<"sts error">>),
          aliasErr \in Outcomes(<<"alias error">>) :
        LET got == getAccount(idErr, aliasErr, <<TheAccount.Alias>>)
        IN  IF got.err # Nil
            THEN /\ ReturnError(Wrap(got.err, "Error in init"))
                 /\ UNCHANGED data
            ELSE /\ data' = EmptyData(got.account)
                 /\ fetchPc' = "cfn"
                 /\ UNCHANGED result
    /\ UNCHANGED <<probe, world, config, managed, iam, s3, iamErr, s3Err, lookups,
                   descriptionFetchError>>

\* Fetch, lines 336-341, going on to the fetch tasks when the index build failed
FetchCfnIgnoreError ==
    /\ fetchPc = "cfn"
    /\ IF config.HeuristicCfnMatching
       THEN UNCHANGED managed
       ELSE \E err \in Outcomes(<<"cfn error">>) :
                managed' = IF err # Nil THEN managed ELSE ManagedByCfn
    /\ fetchPc' = "spawn iam"
    /\ UNCHANGED <<probe, world, config, result, data, iam, s3, iamErr, s3Err, lookups,
                   descriptionFetchError>>

\* Fetch, lines 336-341: the ownership index, unless HeuristicCfnMatching
FetchCfn ==
    /\ fetchPc = "cfn"
    /\ IF config.HeuristicCfnMatching
       THEN /\ fetchPc' = "spawn iam"
            /\ UNCHANGED <<managed, result>>
       ELSE \E err \in Outcomes(<<"cfn error">>) :
                IF err # Nil
                THEN /\ ReturnError(Wrap(err, "Error fetching CFN data"))
                     /\ UNCHANGED managed
                ELSE /\ managed' = ManagedByCfn
                     /\ fetchPc' = "spawn iam"
                     /\ UNCHANGED result
    /\ UNCHANGED <<probe, world, config, data, iam, s3, iamErr, s3Err, lookups,
                   descriptionFetchError>>

\* Fetch, lines 347-351: go fetchIamData
SpawnIam ==
    /\ fetchPc = "spawn iam"
    /\ fetchPc' = "spawn s3"
    /\ iam' = [iam EXCEPT !.pc = "auth page"]
    /\ UNCHANGED <<probe, world, config, result, managed, data, s3, iamErr, s3Err, lookups,
                   descriptionFetchError>>

\* Fetch, lines 354-358: go fetchS3Data
SpawnS3 ==
    /\ fetchPc = "spawn s3"
    /\ fetchPc' = "wait"
    /\ s3' = [s3 EXCEPT !.pc = "list"]
    /\ UNCHANGED <<probe, world, config, result, managed, data, iam, iamErr, s3Err, lookups,
                   descriptionFetchError>>

\* Fetch, lines 362-369, with the S3 error tested first
FetchReturnS3First(iErr, sErr) ==
    IF sErr # Nil THEN [returned |-> TRUE, data |-> Nil, err |-> Wrap(sErr, "Error fetching S3 data")]
    ELSE IF iErr # Nil THEN [returned |-> TRUE, data |-> Nil, err |-> Wrap(iErr, "Error fetching IAM data")]
    ELSE [returned |-> TRUE, data |-> <<"&a.data">>, err |-> Nil]

\* Fetch, lines 362-369: what Fetch returns after wg.Wait()
FetchReturn(iErr, sErr) ==
    IF iErr # Nil THEN [returned |-> TRUE, data |-> Nil, err |-> Wrap(iErr, "Error fetching IAM data")]
    ELSE IF sErr # Nil THEN [returned |-> TRUE, data |-> Nil, err |-> Wrap(sErr, "Error fetching S3 data")]
    ELSE [returned |-> TRUE, data |-> <<"&a.data">>, err |-> Nil]

\* wg.Wait() returns
JoinReady == iam.pc = "done" /\ s3.pc = "done"

\* Fetch, lines 360-369: the join and the return
FetchJoin ==
    /\ fetchPc = "wait"
    /\ JoinReady
    /\ fetchPc' = "done"
    /\ result' = FetchReturn(iamErr, s3Err)
    /\ UNCHANGED <<probe, world, config, managed, data, iam, s3, iamErr, s3Err, lookups,
                   descriptionFetchError>>

(***************************************************************************)
(* The IAM goroutine: fetchIamData                                         *)
(***************************************************************************)
F == FetcherConfig(managed)

\* fetchIamData, lines 422-427 (and 437-442): after a paginated listing ended
\* with the handler's last error populateErr and the listing's own error err
AfterPages(populateErr, err) ==
    IF populateErr # Nil THEN [return |-> TRUE, err |-> err]
    ELSE IF err # Nil THEN [return |-> TRUE, err |-> err]
    ELSE [return |-> FALSE, err |-> Nil]

\* GetAccountAuthorizationDetailsPages has returned err, the handler's last
\* result being populateErr: fetchIamData returns or goes on to the profiles.
\* The listing's position and the locals are gone.
AuthorizationDetailsEnded(populateErr, err) ==
    LET after == AfterPages(populateErr, err)
    IN  IF after.return
        THEN /\ iam' = [IdleIam EXCEPT !.pc = "done", !.populateIamDataErr = populateErr]
             /\ iamErr' = after.err
        ELSE /\ iam' = [IdleIam EXCEPT !.pc = "profile page"]
             /\ UNCHANGED iamErr

\* populateIamData returned err (not nil): the handler returns false, which
\* stops the pagination; the pagination itself reports no error
HandlerFailed(err) == AuthorizationDetailsEnded(err, Nil)

\* the listing requests its next page and hands it to the handler
IamPage ==
    /\ Running
    /\ iam.pc = "auth page"
    /\ iam.pages < MaxPages
    /\ iam' = [iam EXCEPT !.pc = "users", !.pages = @ + 1]
    /\ UNCHANGED <<probe, world, config, fetchPc, result, managed, data, s3, iamErr, s3Err,
                   lookups, descriptionFetchError>>

\* the request for the next page fails: the listing returns the error
IamPageError ==
    /\ Running
    /\ iam.pc = "auth page"
    /\ iam.pages < MaxPages
    /\ world.open
    /\ AuthorizationDetailsEnded(Nil, <<"RequestError">>)
    /\ UNCHANGED <<probe, world, config, fetchPc, result, managed, data, s3, s3Err,
                   lookups, descriptionFetchError>>

\* the page before was the last one: the listing returns nil
IamPagesEnd ==
    /\ Running
    /\ iam.pc = "auth page"
    /\ iam.pages >= 1
    /\ Exhausted(world.users, iam.users) /\ Exhausted(world.groups, iam.groups)
    /\ Exhausted(world.roles, iam.roles) /\ Exhausted(world.policies, iam.policies)
    /\ AuthorizationDetailsEnded(Nil, Nil)
    /\ UNCHANGED <<probe, world, config, fetchPc, result, managed, data, s3, s3Err,
                   lookups, descriptionFetchError>>

\* populateIamData, lines 524-554: the next user of the page
IamUser ==
    /\ Running
    /\ iam.pc = "users"
    /\ \E j \in {k \in (iam.users + 1)..Len(UserCatalog) : Delivers(world.users, iam.users, k)} :
        LET r == UserIteration(F, data.Account, UserCatalog[j])
            next == [iam EXCEPT !.users = j]
        IN  CASE r.outcome = "added" ->
                    /\ data' = [data EXCEPT !.Users = Append(@, r.record)]
                    /\ iam' = next
                    /\ UNCHANGED iamErr
              [] r.outcome = "skipped" ->
                    /\ iam' = next
                    /\ UNCHANGED <<data, iamErr>>
              [] r.outcome = "error" ->
                    /\ HandlerFailed(r.err)
                    /\ UNCHANGED data
    /\ UNCHANGED <<probe, world, config, fetchPc, result, managed, s3, s3Err, lookups,
                   descriptionFetchError>>

IamUsersEnd ==
    /\ Running
    /\ iam.pc = "users"
    /\ iam' = [iam EXCEPT !.pc = "groups"]
    /\ UNCHANGED <<probe, world, config, fetchPc, result, managed, data, s3, iamErr, s3Err,
                   lookups, descriptionFetchError>>

\* populateIamData, lines 556-575: the next group of the page
IamGroup ==
    /\ Running
    /\ iam.pc = "groups"
    /\ \E j \in {k \in (iam.groups + 1)..Len(GroupCatalog) : Delivers(world.groups, iam.groups, k)} :
        LET r == GroupIteration(F, data.Account, GroupCatalog[j])
            next == [iam EXCEPT !.groups = j]
        IN  CASE r.outcome = "added" ->
                    /\ data' = [data EXCEPT !.Groups = Append(@, r.record)]
                    /\ iam' = next
                    /\ UNCHANGED iamErr
              [] r.outcome = "skipped" ->
                    /\ iam' = next
                    /\ UNCHANGED <<data, iamErr>>
              [] r.outcome = "error" ->
                    /\ HandlerFailed(r.err)
                    /\ UNCHANGED data
    /\ UNCHANGED <<probe, world, config, fetchPc, result, managed, s3, s3Err, lookups,
                   descriptionFetchError>>

IamGroupsEnd ==
    /\ Running
    /\ iam.pc = "groups"
    /\ iam' = [iam EXCEPT !.pc = "roles"]
    /\ UNCHANGED <<probe, world, config, fetchPc, result, managed, data, s3, iamErr, s3Err,
                   lookups, descriptionFetchError>>

\* marshalRoleAsync / marshalPolicyDescriptionAsync: Add(1) and go, when the
\* iteration called it
Dispatch(r, kind, name) ==
    IF r.dispatched THEN lookups \cup {[kind |-> kind, name |-> name]} ELSE lookups

\* populateIamData, lines 577-610: the next role of the page
IamRole ==
    /\ Running
    /\ iam.pc = "roles"
    /\ \E j \in {k \in (iam.roles + 1)..Len(RoleCatalog) : Delivers(world.roles, iam.roles, k)} :
        LET r == RoleIteration(F, config.SkipFetchingPolicyAndRoleDescriptions,
                               data.Account, RoleCatalog[j])
            next == [iam EXCEPT !.roles = j]
        IN  /\ lookups' = Dispatch(r, "role", RoleCatalog[j].RoleName)
            /\ CASE r.outcome = "added" ->
                    /\ data' = addRole(data, r.record)
                    /\ iam' = next
                    /\ UNCHANGED iamErr
                 [] r.outcome = "skipped" ->
                    /\ iam' = next
                    /\ UNCHANGED <<data, iamErr>>
                 [] r.outcome = "error" ->
                    /\ HandlerFailed(r.err)
                    /\ UNCHANGED data
    /\ UNCHANGED <<probe, world, config, fetchPc, result, managed, s3, s3Err,
                   descriptionFetchError>>

IamRolesEnd ==
    /\ Running
    /\ iam.pc = "roles"
    /\ iam' = [iam EXCEPT !.pc = "tags"]
    /\ UNCHANGED <<probe, world, config, fetchPc, result, managed, data, s3, iamErr, s3Err,
                   lookups, descriptionFetchError>>

\* populateIamData, lines 612-621: the batched tag lookup
IamPolicyTags ==
    /\ Running
    /\ iam.pc = "tags"
    /\ \E err \in Outcomes(<<"tagging error">>) :
        IF err # Nil
        THEN HandlerFailed(err)
        ELSE /\ iam' = [iam EXCEPT !.pc = "policies"]
             /\ UNCHANGED iamErr
    /\ UNCHANGED <<probe, world, config, fetchPc, result, managed, data, s3, s3Err, lookups,
                   descriptionFetchError>>

\* populateIamData, lines 623-661: the next managed policy of the page
IamPolicy ==
    /\ Running
    /\ iam.pc = "policies"
    /\ \E j \in {k \in (iam.policies + 1)..Len(PolicyCatalog) : Delivers(world.policies, iam.policies, k)} :
        LET r == PolicyIteration(F, config.SkipFetchingPolicyAndRoleDescriptions,
                                 PolicyCatalog[j], AccountPolicyTags)
            next == [iam EXCEPT !.policies = j]
        IN  /\ lookups' = Dispatch(r, "policy", PolicyCatalog[j].PolicyName)
            /\ CASE r.outcome = "added" ->
                    /\ data' = addPolicy(data, r.policy)
                    /\ iam' = next
                    /\ UNCHANGED <<iamErr, fetchPc>>
                 [] r.outcome = "skipped" ->
                    /\ iam' = next
                    /\ UNCHANGED <<data, iamErr, fetchPc>>
                 [] r.outcome = "error" ->
                    /\ HandlerFailed(r.err)
                    /\ UNCHANGED <<data, fetchPc>>
                 [] r.outcome = "panic" ->
                    /\ fetchPc' = "crashed"
                    /\ iam' = [IdleIam EXCEPT !.pc = "done"]
                    /\ UNCHANGED <<data, iamErr>>
    /\ UNCHANGED <<probe, world, config, result, managed, s3, s3Err, descriptionFetchError>>

IamPoliciesEnd ==
    /\ Running
    /\ iam.pc = "policies"
    /\ iam' = [iam EXCEPT !.pc = "wait"]
    /\ UNCHANGED <<probe, world, config, fetchPc, result, managed, data, s3, iamErr, s3Err,
                   lookups, descriptionFetchError>>

\* populateIamData, lines 663-665: descriptionFetchWaitGroup.Wait() and the
\* return of descriptionFetchError; the handler goes on to the next page if nil
IamWait ==
    /\ Running
    /\ iam.pc = "wait"
    /\ lookups = {}
    /\ IF descriptionFetchError # Nil
       THEN HandlerFailed(descriptionFetchError)
       ELSE /\ iam' = [iam EXCEPT !.pc = "auth page"]
            /\ UNCHANGED iamErr
    /\ UNCHANGED <<probe, world, config, fetchPc, result, managed, data, s3, s3Err, lookups,
                   descriptionFetchError>>

\* fetchIamData, lines 429-443: ListInstanceProfilesPages hands a page to the handler
IamProfilePage ==
    /\ Running
    /\ iam.pc = "profile page"
    /\ iam.profilePages < MaxPages
    /\ iam' = [iam EXCEPT !.pc = "profiles", !.profilePages = @ + 1]
    /\ UNCHANGED <<probe, world, config, fetchPc, result, managed, data, s3, iamErr, s3Err,
                   lookups, descriptionFetchError>>

\* ListInstanceProfilesPages returns: an error of a page request, or nil after
\* the last page; populateInstanceProfileData never fails
IamProfilePagesEnd ==
    /\ Running
    /\ iam.pc = "profile page"
    /\ \E err \in Outcomes(<<"RequestError">>) :
        /\ err = Nil => iam.profilePages >= 1 /\ Exhausted(world.profiles, iam.profiles)
        /\ err # Nil => iam.profilePages < MaxPages
        /\ iamErr' = AfterPages(Nil, err).err
    /\ iam' = [IdleIam EXCEPT !.pc = "done"]
    /\ UNCHANGED <<probe, world, config, fetchPc, result, managed, data, s3, s3Err,
                   lookups, descriptionFetchError>>

\* populateInstanceProfileData, lines 504-519: the next profile of the page
IamProfile ==
    /\ Running
    /\ iam.pc = "profiles"
    /\ \E j \in {k \in (iam.profiles + 1)..Len(ProfileCatalog) : Delivers(world.profiles, iam.profiles, k)} :
        LET r == ProfileIteration(F, ProfileCatalog[j])
        IN  /\ iam' = [iam EXCEPT !.profiles = j]
            /\ data' = IF r.outcome = "added"
                       THEN [data EXCEPT !.InstanceProfiles = Append(@, r.record)]
                       ELSE data
    /\ UNCHANGED <<probe, world, config, fetchPc, result, managed, s3, iamErr, s3Err,
                   lookups, descriptionFetchError>>

IamProfilesEnd ==
    /\ Running
    /\ iam.pc = "profiles"
    /\ iam' = [iam EXCEPT !.pc = "profile page"]
    /\ UNCHANGED <<probe, world, config, fetchPc, result, managed, data, s3, iamErr, s3Err,
                   lookups, descriptionFetchError>>

(***************************************************************************)
(* The enrichment goroutines                                               *)
(***************************************************************************)
\* every record of rs with the fields of written assigned
UpdateAll(rs, name, written) ==
    [i \in 1..Len(rs) |-> [f \in DOMAIN rs[i] |->
                              IF f \in DOMAIN written THEN written[f] ELSE rs[i][f]]]

\* the records of rs named name, with the fields of written assigned
UpdateNamed(rs, name, written) ==
    [i \in 1..Len(rs) |-> IF rs[i].Name = name
                          THEN [f \in DOMAIN rs[i] |->
                                   IF f \in DOMAIN written THEN written[f] ELSE rs[i][f]]
                          ELSE rs[i]]

\* the goroutine of marshalRoleAsync / marshalPolicyDescriptionAsync runs:
\* getRole or getPolicyDescription returns, the record it was started for is
\* written, an error is stored in descriptionFetchError, Done() is called
LookupFinish ==
    /\ Running
    /\ \E l \in lookups, err \in Outcomes(<<"lookup error">>), sessionDuration \in {0, 7200} :
        LET description == IF err = Nil THEN "described" ELSE ""
            WriteRole == IF sessionDuration > 0
                         THEN [Description |-> description,
                               MaxSessionDuration |-> sessionDuration]
                         ELSE [Description |-> description]
            WritePolicy == [Description |-> description]
        IN  /\ sessionDuration > 0 <=> (l.kind = "role" /\ err = Nil)
            /\ data' = IF l.kind = "role"
                       THEN [data EXCEPT !.Roles = UpdateNamed(@, l.name, WriteRole)]
                       ELSE [data EXCEPT !.Policies = UpdateNamed(@, l.name, WritePolicy)]
            /\ descriptionFetchError' = IF err # Nil THEN err ELSE descriptionFetchError
            /\ lookups' = lookups \ {l}
    /\ UNCHANGED <<probe, world, config, fetchPc, result, managed, iam, s3, iamErr, s3Err>>

(***************************************************************************)
(* The S3 goroutine: fetchS3Data                                           *)
(***************************************************************************)
\* fetchS3Data, lines 373-376: listAllBuckets
S3List ==
    /\ Running
    /\ s3.pc = "list"
    /\ \E err \in Outcomes(<<"s3 error">>) :
        IF err # Nil
        THEN /\ s3Err' = Wrap(err, "Error listing buckets")
             /\ s3' = [IdleS3 EXCEPT !.pc = "done"]
        ELSE /\ s3' = [s3 EXCEPT !.pc = "buckets"]
             /\ UNCHANGED s3Err
    /\ UNCHANGED <<probe, world, config, fetchPc, result, managed, data, iam, iamErr, lookups,
                   descriptionFetchError>>

\* fetchS3Data, lines 377-397: the next bucket of the list
S3Bucket ==
    /\ Running
    /\ s3.pc = "buckets"
    /\ \E j \in {k \in (s3.buckets + 1)..Len(BucketCatalog) : Delivers(world.buckets, s3.buckets, k)} :
        LET r == BucketIteration(F, BucketCatalog[j])
            next == [s3 EXCEPT !.buckets = j,
                               !.last = [name |-> BucketCatalog[j].name,
                                         outcome |-> r.outcome,
                                         classified |-> r.classified]]
        IN  CASE r.outcome = "added" ->
                    /\ data' = [data EXCEPT !.BucketPolicies = Append(@, r.record)]
                    /\ s3' = next
                    /\ UNCHANGED s3Err
              [] r.outcome \in {"skipped", "no policy"} ->
                    /\ s3' = next
                    /\ UNCHANGED <<data, s3Err>>
              [] r.outcome = "error" ->
                    /\ s3Err' = r.err
                    /\ s3' = [IdleS3 EXCEPT !.pc = "done"]
                    /\ UNCHANGED data
    /\ UNCHANGED <<probe, world, config, fetchPc, result, managed, iam, iamErr, lookups,
                   descriptionFetchError>>

\* fetchS3Data, line 399: the list is exhausted
S3BucketsEnd ==
    /\ Running
    /\ s3.pc = "buckets"
    /\ Exhausted(world.buckets, s3.buckets)
    /\ s3' = [IdleS3 EXCEPT !.pc = "done"]
    /\ s3Err' = Nil
    /\ UNCHANGED <<probe, world, config, fetchPc, result, managed, data, iam, iamErr, lookups,
                   descriptionFetchError>>

Next ==
    \/ FetchInit \/ FetchCfn \/ SpawnIam \/ SpawnS3 \/ FetchJoin
    \/ IamPage \/ IamPageError \/ IamPagesEnd
    \/ IamUser \/ IamUsersEnd \/ IamGroup \/ IamGroupsEnd \/ IamRole \/ IamRolesEnd
    \/ IamPolicyTags \/ IamPolicy \/ IamPoliciesEnd \/ IamWait
    \/ IamProfilePage \/ IamProfilePagesEnd \/ IamProfile \/ IamProfilesEnd
    \/ LookupFinish
    \/ S3List \/ S3Bucket \/ S3BucketsEnd

Spec == Init /\ [][Next]_vars

(***************************************************************************)
(* Claims about Fetch                                                      *)
(***************************************************************************)
\* a fetch task has been started
Started == iam.pc # "idle" \/ s3.pc # "idle"

\* init has bound the snapshot to an account
HasAccount == data.Account # Nil

\* C1: if the page handler fails on a page (malformed trust, inline or managed
\* policy document, failed tag lookup), Fetch returns an error and no snapshot.
C1_HandlerFailureFailsFetch ==
    (/\ result.returned
     /\ iam.populateIamDataErr \in {<<"invalid policy json">>, <<"tagging error">>}) =>
        (result.err # Nil /\ result.data = Nil)

\* C2: Fetch starts both tasks and returns only after both have finished; an
\* IAM error is returned whatever the S3 task did, an S3 error when only the S3
\* task failed, both without a snapshot; a snapshot only when neither failed.
C2_Join ==
    /\ fetchPc = "wait" => (iam.pc # "idle" /\ s3.pc # "idle")
    /\ result.returned =>
        /\ \/ iam.pc = "idle" /\ s3.pc = "idle"
           \/ iam.pc = "done" /\ s3.pc = "done"
        /\ Started =>
            /\ iamErr # Nil =>
                /\ result.data = Nil
                /\ result.err = <<"Error fetching IAM data">> \o iamErr
            /\ (iamErr = Nil /\ s3Err # Nil) =>
                /\ result.data = Nil
                /\ result.err = <<"Error fetching S3 data">> \o s3Err
            /\ result.data # Nil => (iamErr = Nil /\ s3Err = Nil /\ result.err = Nil)
            /\ (iamErr = Nil /\ s3Err = Nil) => result.data # Nil

\* both tasks failed and Fetch has returned the IAM error
C2_Witness ==
    /\ result.returned
    /\ iamErr # Nil /\ s3Err # Nil
    /\ result.err = <<"Error fetching IAM data">> \o iamErr

\* C3: when the IAM task returns, no enrichment lookup is in flight, also when
\* the page handler returned early with an error.
C3_NoLookupInFlightAtReturn ==
    (Running /\ iam.pc = "done") => lookups = {}

\* C4: if an enrichment lookup fails, the IAM task surfaces the error and Fetch
\* returns an error and no snapshot.
C4_LookupFailureFailsFetch ==
    (result.returned /\ iam.populateIamDataErr = <<"lookup error">>) =>
        (result.err # Nil /\ result.data = Nil)

\* the bucket of the catalog called name
BucketNamed(name) ==
    BucketCatalog[CHOOSE j \in 1..Len(BucketCatalog) : BucketCatalog[j].name = name]

\* C7: a bucket policy is stored only for a bucket with a non-empty policy
\* document that the classifier accepts; a bucket with an empty document is not
\* classified; the end-to-end account (one force-included user, one bucket with
\* an empty policy document) yields exactly one user and no bucket policy.
C7_BucketPolicies ==
    /\ \A i \in 1..Len(data.BucketPolicies) :
        \E j \in 1..Len(BucketCatalog) :
            /\ BucketCatalog[j].name = data.BucketPolicies[i].BucketName
            /\ BucketCatalog[j].policyJson # ""
            /\ ~isSkippableManagedResource(F, CfnS3Bucket, BucketCatalog[j].name,
                                           BucketCatalog[j].tags, DontSkipS3).skip
    /\ s3.last.outcome # "none" =>
        (BucketNamed(s3.last.name).policyJson = "" <=>
            (s3.last.outcome = "no policy" /\ ~s3.last.classified))
    /\ (~world.open /\ result.returned) =>
        /\ result.data = <<"&a.data">>
        /\ Len(data.Users) = 1
        /\ data.Users[1].Name = <<"a", "n", "n">>
        /\ Len(data.BucketPolicies) = 0

\* the fetch of the end-to-end account has returned its snapshot
C7_Witness ==
    /\ ~world.open
    /\ result.returned
    /\ result.data = <<"&a.data">>
    /\ Len(data.Users) = 1

\* C8: no fetch task is started before init and, when heuristic matching is
\* off, the index build have succeeded; the index is built exactly when
\* heuristic matching is off; a failed init or index build makes Fetch return the
\* error naming that phase, with no task started and no snapshot.
C8_PhaseOrder ==
    /\ Started =>
        /\ HasAccount
        /\ fetchPc \in {"spawn s3", "wait", "done", "crashed"}
        /\ (managed = ManagedByCfn) <=> ~config.HeuristicCfnMatching
    /\ managed # {} => (HasAccount /\ ~config.HeuristicCfnMatching)
    /\ (fetchPc # "init" /\ ~HasAccount) =>
        /\ result.returned
        /\ result.err[1] = "Error in init"
    /\ (fetchPc \notin {"init", "cfn"} /\ HasAccount
          /\ ~config.HeuristicCfnMatching /\ managed = {}) =>
        /\ result.returned
        /\ result.err[1] = "Error fetching CFN data"
    /\ (result.returned /\ result.err # Nil
          /\ result.err[1] \in {"Error in init", "Error fetching CFN data"}) =>
        /\ ~Started
        /\ result.data = Nil

\* the index build has failed and Fetch has returned
C8_Witness ==
    /\ result.returned
    /\ result.err # Nil
    /\ result.err[1] = "Error fetching CFN data"
    /\ ~Started

\* a version of the policy is flagged default
HasDefault(policyResp) ==
    \E i \in 1..Len(policyResp.PolicyVersionList) :
        policyResp.PolicyVersionList[i].IsDefaultVersion

\* the classification of the policy before its tags are looked at skips it
SkippedUntagged(policyResp) ==
    isSkippableManagedResource(F, CfnIamPolicy, policyResp.PolicyName, NoTags,
                               policyResp.Path).skip

\* C15 as stated: every managed policy the listing delivers with no version
\* flagged default aborts the fetch, so the policy loop never moves on past
\* such a policy, and no snapshot is returned.
C15_NoDefaultIsFatal ==
    /\ \A j \in 1..Len(PolicyCatalog) :
         iam.policies = j => HasDefault(PolicyCatalog[j])
    /\ fetchPc = "crashed" => ~result.returned

\* C15, amended: a managed policy that the first classification (without tags)
\* does not skip and that has no version flagged default aborts the fetch: the
\* policy loop moves on past a policy with no default version only if that
\* classification skipped it, and after the abort Fetch returns nothing.
C15_NoDefaultIsFatalUnlessSkipped ==
    /\ \A j \in 1..Len(PolicyCatalog) :
         (iam.policies = j /\ ~HasDefault(PolicyCatalog[j])) =>
             SkippedUntagged(PolicyCatalog[j])
    /\ fetchPc = "crashed" => (~result.returned /\ iam.pc = "done")

\* the fetch has aborted on a policy with no default version, after policies
\* were stored, and has returned nothing
C15_Witness ==
    /\ fetchPc = "crashed"
    /\ Len(data.Policies) > 0
    /\ ~result.returned

\* the classifier's answer for entry j of each listing, asked as the loop asks it
SkipsUser(j) ==
    isSkippableManagedResource(F, CfnIamUser, UserCatalog[j].UserName, UserCatalog[j].Tags,
                               UserCatalog[j].Path).skip
SkipsGroup(j) ==
    isSkippableManagedResource(F, CfnIamGroup, GroupCatalog[j].GroupName, NoTags,
                               GroupCatalog[j].Path).skip
SkipsRole(j) ==
    isSkippableManagedResource(F, CfnIamRole, RoleCatalog[j].RoleName, RoleCatalog[j].Tags,
                               RoleCatalog[j].Path).skip
SkipsProfile(j) ==
    isSkippableManagedResource(F, CfnInstanceProfile, ProfileCatalog[j].InstanceProfileName,
                               NoTags, ProfileCatalog[j].Path).skip
SkipsBucket(j) ==
    /\ BucketCatalog[j].policyJson # ""
    /\ isSkippableManagedResource(F, CfnS3Bucket, BucketCatalog[j].name,
                                  BucketCatalog[j].tags, DontSkipS3).skip

\* the tags getMultiplePolicyTags resolved for policy j
ResolvedTags(j) ==
    IF PolicyCatalog[j].Arn \in DOMAIN AccountPolicyTags
    THEN AccountPolicyTags[PolicyCatalog[j].Arn] ELSE NoTags

\* policy j is skipped by the first classification, or reaches the second and
\* is skipped there
SkipsPolicy(j) ==
    \/ SkippedUntagged(PolicyCatalog[j])
    \/ /\ HasDefault(PolicyCatalog[j])
       /\ \A i \in 1..Len(PolicyCatalog[j].PolicyVersionList) :
            PolicyCatalog[j].PolicyVersionList[i].IsDefaultVersion =>
                PolicyCatalog[j].PolicyVersionList[i].Document \in WellFormedJson
       /\ isSkippableManagedResource(F, CfnIamPolicy, PolicyCatalog[j].PolicyName,
                                     ResolvedTags(j), PolicyCatalog[j].Path).skip

\* the IAM task goes on in the same loop with snapshot and errors as they were
IamLoopGoesOn ==
    /\ data' = data
    /\ iamErr' = iamErr
    /\ iam'.populateIamDataErr = iam.populateIamDataErr
    /\ descriptionFetchError' = descriptionFetchError
    /\ iam'.pc = iam.pc

\* C16: a step in which the classifier skips a user, group, role, policy,
\* instance profile or bucket records no error, appends nothing, and leaves
\* the task in the same loop, where the later resources are classified.
C16_SkipIsSoft ==
    [][/\ \A j \in 1..Len(UserCatalog) :
            (iam.pc = "users" /\ iam.users < j /\ iam'.users = j /\ SkipsUser(j))
                => IamLoopGoesOn
       /\ \A j \in 1..Len(GroupCatalog) :
            (iam.pc = "groups" /\ iam.groups < j /\ iam'.groups = j /\ SkipsGroup(j))
                => IamLoopGoesOn
       /\ \A j \in 1..Len(RoleCatalog) :
            (iam.pc = "roles" /\ iam.roles < j /\ iam'.roles = j /\ SkipsRole(j))
                => IamLoopGoesOn
       /\ \A j \in 1..Len(PolicyCatalog) :
            (iam.pc = "policies" /\ iam.policies < j /\ iam'.policies = j /\ SkipsPolicy(j))
                => IamLoopGoesOn
       /\ \A j \in 1..Len(ProfileCatalog) :
            (iam.pc = "profiles" /\ iam.profiles < j /\ iam'.profiles = j /\ SkipsProfile(j))
                => IamLoopGoesOn
       /\ \A j \in 1..Len(BucketCatalog) :
            (s3.pc = "buckets" /\ s3.buckets < j /\ s3'.buckets = j /\ SkipsBucket(j))
                => (data' = data /\ s3Err' = s3Err /\ s3'.pc = "buckets")
       /\ iam'.populateIamDataErr
            \in {Nil, <<"invalid policy json">>, <<"tagging error">>, <<"lookup error">>}
       /\ s3Err' \in {Nil, <<"Error listing buckets", "s3 error">>,
                       <<"Error creating Policy document", "invalid policy json">>}
      ]_vars

\* the user loop has just skipped the tagged user and the bucket loop the
\* bucket a stack owns; both loops go on and no error is recorded
C16_Witness ==
    /\ iam.pc = "users" /\ iam.users = 1 /\ SkipsUser(1)
    /\ s3.pc = "buckets" /\ s3.last.outcome = "skipped"
    /\ Len(data.BucketPolicies) = 0 /\ Len(data.Users) = 0
    /\ iamErr = Nil /\ s3Err = Nil /\ iam.populateIamDataErr = Nil

\* the collections the IAM task appends to
IamCollections == {"Users", "Groups", "Roles", "Policies", "InstanceProfiles"}

\* rs2 is rs1 but for the given fields of the records named name
WrittenOnly(rs1, rs2, name, fields) ==
    /\ Len(rs2) = Len(rs1)
    /\ \A i \in 1..Len(rs1) :
        /\ DOMAIN rs2[i] = DOMAIN rs1[i]
        /\ \A f \in DOMAIN rs1[i] :
            rs2[i][f] # rs1[i][f] => (rs1[i].Name = name /\ f \in fields)

\* C17: bucket policies are appended only by a step of the S3 task, the other
\* collections only by a step of the IAM task, each step appending to one
\* collection; a step of an enrichment lookup appends to no collection and
\* writes only Description and MaxSessionDuration of the role, or Description of
\* the policy, it was dispatched for.
C17_SingleWriter ==
    [][/\ data'.BucketPolicies # data.BucketPolicies =>
            /\ s3' # s3 /\ iam' = iam /\ lookups' = lookups
            /\ \A c \in IamCollections : data'[c] = data[c]
       /\ \A c \in IamCollections :
            Len(data'[c]) # Len(data[c]) =>
                /\ iam' # iam /\ s3' = s3
                /\ data'[c] = Append(data[c], data'[c][Len(data'[c])])
                /\ \A d \in (IamCollections \ {c}) \cup {"BucketPolicies"} : data'[d] = data[d]
       /\ (lookups' # lookups /\ lookups' \subseteq lookups) =>
            \E l \in lookups \ lookups' :
                /\ iam' = iam /\ s3' = s3
                /\ \A c \in {"Users", "Groups", "InstanceProfiles", "BucketPolicies"} :
                    data'[c] = data[c]
                /\ IF l.kind = "role"
                   THEN /\ WrittenOnly(data.Roles, data'.Roles, l.name,
                                       {"Description", "MaxSessionDuration"})
                        /\ data'.Policies = data.Policies
                   ELSE /\ WrittenOnly(data.Policies, data'.Policies, l.name, {"Description"})
                        /\ data'.Roles = data.Roles
      ]_vars

\* of two stored roles one has been written by its lookup and the other not
\* yet, while the S3 task has appended a bucket policy
C17_Witness ==
    /\ Len(data.Roles) = 2
    /\ data.Roles[1].Description = "" /\ data.Roles[1].MaxSessionDuration = 0
    /\ data.Roles[2].Description = "described" /\ data.Roles[2].MaxSessionDuration = 7200
    /\ [kind |-> "role", name |-> data.Roles[1].Name] \in lookups
    /\ Len(data.BucketPolicies) = 1

\* the name a record of collection c is known by
NameOf(c, r) == IF c = "BucketPolicies" THEN r.BucketName ELSE r.Name

\* the name of the resource that arrived in the step, for collection c
ArrivedName(c) ==
    CASE c = "Users" -> UserCatalog[iam'.users].UserName
      [] c = "Groups" -> GroupCatalog[iam'.groups].GroupName
      [] c = "Roles" -> RoleCatalog[iam'.roles].RoleName
      [] c = "Policies" -> PolicyCatalog[iam'.policies].PolicyName
      [] c = "InstanceProfiles" -> ProfileCatalog[iam'.profiles].InstanceProfileName
      [] c = "BucketPolicies" -> BucketCatalog[s3'.buckets].name

\* C18: a collection changes its length only by one element put at its end,
\* the resource that arrived in that step; the elements it held keep their
\* places, and nothing is removed.
C18_InsertionOrder ==
    [][\A c \in IamCollections \cup {"BucketPolicies"} :
        /\ Len(data'[c]) >= Len(data[c])
        /\ \A i \in 1..Len(data[c]) : NameOf(c, data'[c][i]) = NameOf(c, data[c][i])
        /\ Len(data'[c]) # Len(data[c]) =>
            /\ Len(data'[c]) = Len(data[c]) + 1
            /\ NameOf(c, data'[c][Len(data'[c])]) = ArrivedName(c)
      ]_vars

\* two roles of the first page are in the snapshot in the order of the page
C18_Witness ==
    /\ iam.pc = "roles" /\ iam.pages = 1
    /\ Len(data.Roles) = 2
    /\ data.Roles[1].Name = RoleCatalog[2].RoleName
    /\ data.Roles[2].Name = RoleCatalog[3].RoleName

\* no two records of the collection have the same name and path
UniqueByNameAndPath(rs) ==
    \A i, k \in 1..Len(rs) :
        (rs[i].Name = rs[k].Name /\ rs[i].Path = rs[k].Path) => i = k

C20_NoLookupForExcluded ==
    \A l \in lookups :
        /\ l.kind = "role" =>
            \A j \in 1..Len(RoleCatalog) : RoleCatalog[j].RoleName = l.name => ~SkipsRole(j)
        /\ l.kind = "policy" =>
            \A j \in 1..Len(PolicyCatalog) :
                PolicyCatalog[j].PolicyName = l.name => ~SkipsPolicy(j)

(***************************************************************************)
(* SpecVersions: one managed policy through the policy loop                *)
(***************************************************************************)
VersionIds == <<"v1", "v2", "v3", "v4", "v5">>
VersionDocs == <<"{A}", "{B}", "{C}", "{D}", "{E}">>
CreateDates == 1..3

\* the version lists of length n: version i has id VersionIds[i], any default
\* flag, any creation date and either its own document or a malformed one
VersionLists(n) ==
    { [i \in 1..n |-> [ VersionId |-> VersionIds[i],
                        IsDefaultVersion |-> flags[i],
                        CreateDate |-> dates[i],
                        Document |-> IF bad[i] THEN "{" ELSE VersionDocs[i] ]] :
        flags \in [1..n -> BOOLEAN], dates \in [1..n -> CreateDates],
        bad \in [1..n -> BOOLEAN] }

ProbePolicyName == <<"p">>

ProbePolicyResps ==
    { [ PolicyName |-> ProbePolicyName,
        Path |-> path,
        Arn |-> arnFor([Id |-> AccountId], PolicyKey, path, ProbePolicyName),
        PolicyVersionList |-> versions ] :
        path \in {Root, CfnPath},
        versions \in UNION {VersionLists(n) : n \in 0..MaxVersions} }

InitVersions ==
    /\ probe \in [ resp : ProbePolicyResps,
                   tags : {NoTags, StackTag, KeepTag @@ StackTag},
                   skipDescriptions : BOOLEAN,
                   stage : {"input"},
                   out : {None} ]
    /\ FetchParked

PopulatePolicy ==
    /\ probe.stage = "input"
    /\ probe' = [probe EXCEPT
                    !.stage = "populated",
                    !.out = PolicyIteration(FetcherConfig({}), probe.skipDescriptions,
                                            probe.resp,
                                            [a \in {probe.resp.Arn} |-> probe.tags])]
    /\ UNCHANGED fetchVars

NextVersions == PopulatePolicy

SpecVersions == InitVersions /\ [][NextVersions]_vars

\* C6: an accepted managed policy is stored with the document of the version
\* flagged default, the id of a version of minimum creation time (the default
\* one included) as oldest-version-id, the ids of the versions not flagged
\* default, in list order, and the length of the list as version count.
C6_VersionSelection ==
    (probe.stage = "populated" /\ probe.out.outcome = "added") =>
        LET vs == probe.resp.PolicyVersionList
            p == probe.out.policy
            nonDefault == {i \in 1..Len(vs) : ~vs[i].IsDefaultVersion}
        IN  /\ \E i \in 1..Len(vs) :
                /\ vs[i].IsDefaultVersion
                /\ p.Policy = <<"PolicyDocument", vs[i].Document>>
            /\ \E i \in 1..Len(vs) :
                /\ vs[i].VersionId = p.oldestVersionId
                /\ \A j \in 1..Len(vs) : vs[i].CreateDate <= vs[j].CreateDate
            /\ Len(p.nondefaultVersionIds) = Cardinality(nonDefault)
            /\ \A k \in 1..Len(p.nondefaultVersionIds) :
                \E i \in nonDefault :
                    /\ vs[i].VersionId = p.nondefaultVersionIds[k]
                    /\ Cardinality({j \in nonDefault : j < i}) = k - 1
            /\ p.numberOfVersions = Len(vs)

\* the example of the specification: [v1 non-default oldest, v2 default, v3
\* non-default newest] is stored with v2's document, oldest v1, non-default v1, v3
C6_Witness ==
    /\ probe.stage = "populated"
    /\ probe.out.outcome = "added"
    /\ Len(probe.resp.PolicyVersionList) = 3
    /\ [i \in 1..3 |-> probe.resp.PolicyVersionList[i].IsDefaultVersion]
         = <<FALSE, TRUE, FALSE>>
    /\ [i \in 1..3 |-> probe.resp.PolicyVersionList[i].CreateDate] = <<1, 2, 3>>
    /\ probe.out.policy.Policy = <<"PolicyDocument", "{B}">>
    /\ probe.out.policy.oldestVersionId = "v1"
    /\ probe.out.policy.nondefaultVersionIds = <<"v1", "v3">>
    /\ probe.out.policy.numberOfVersions = 3

\* the resolved tag set of the policy holds a configured force-include key
ForceIncluded(tags) ==
    \E i \in 1..Len(FetcherConfig({}).IncludeTagged) :
        FetcherConfig({}).IncludeTagged[i] \in DOMAIN tags

InitAccount ==
    /\ probe \in {[in |-> s, stage |-> "input", acct |-> None, out |-> None] :
                    s \in AccountStrings}
    /\ FetchParked

ParseAccount ==
    /\ probe.stage = "input"
    /\ probe' = [probe EXCEPT !.stage = "parsed", !.acct = NewAccountFromString(probe.in)]
    /\ UNCHANGED fetchVars

RenderAccount ==
    /\ probe.stage = "parsed"
    /\ probe.acct # Panic
    /\ probe' = [probe EXCEPT !.stage = "rendered", !.out = AccountString(probe.acct)]
    /\ UNCHANGED fetchVars

NextAccount == ParseAccount \/ RenderAccount

SpecAccount == InitAccount /\ [][NextAccount]_vars

\* the two shapes of a valid account string, stated on the string itself
IsDigitRun(s) == Len(s) > 0 /\ AllIn(s, Digits)

IsAliasForm(s) ==
    \E i \in 2..(Len(s) - 1) :
        /\ s[i] = "-"
        /\ AllIn(SubSeq(s, 1, i - 1), WordOrHyphen)
        /\ IsDigitRun(SubSeq(s, i + 1, Len(s)))

ValidAccountString(s) == IsDigitRun(s) \/ IsAliasForm(s)

\* the length of the longest run of digits that ends the string
TrailingDigits(s) ==
    SeqMax({n \in 0..Len(s) : AllIn(SubSeq(s, Len(s) - n + 1, Len(s)), Digits)})

\* C9: for every valid account string s, NewAccountFromString(s).String() = s;
\* the id is the final digit run, and the alias is what precedes the hyphen
\* before that run (empty for the bare-digits form).
C9_RoundTrip ==
    (probe.stage = "rendered" /\ ValidAccountString(probe.in)) =>
        LET s == probe.in
            n == TrailingDigits(s)
        IN  /\ probe.out = s
            /\ probe.acct.Id = SubSeq(s, Len(s) - n + 1, Len(s))
            /\ probe.acct.Alias = IF n = Len(s) THEN <<>> ELSE SubSeq(s, 1, Len(s) - n - 1)

\* an alias-form string with a hyphen inside the alias has been parsed and rendered
C9_Witness ==
    /\ probe.stage = "rendered"
    /\ probe.in = <<"a", "-", "0", "-", "7">>
    /\ probe.acct = [Alias |-> <<"a", "-", "0">>, Id |-> <<"7">>]

\* C10: parsing fails (panics, no Account) for every string that is neither
\* <alias>-<digits> nor <digits>, the empty string and "a-" included.
C10_ParseFails ==
    (probe.stage \in {"parsed", "rendered"} /\ ~ValidAccountString(probe.in)) =>
        probe.acct = Panic

\* a string with no trailing digit run has been handed to the parser
C10_Witness ==
    /\ probe.stage = "parsed"
    /\ probe.in = <<"a", "-">>
    /\ probe.acct = Panic

(***************************************************************************)
(* SpecPolicyArn: expand a policy name or identifier, then normalise it    *)
(***************************************************************************)
\* longest policy name or identifier enumerated
MaxNameLen == 5

\* the characters of the names: those of "arn:", the path separator and a letter
NameChars == {"a", "r", "n", ":", "/", "p"}

\* the accounts the two functions are called on
ArnAccounts == {TheAccount, [Id |-> <<"7">>, Alias |-> <<>>]}

\* names and identifiers: every short string, and three full identifiers
PolicyNames ==
    StringsUpTo(NameChars, MaxNameLen)
        \cup {OwnPolicyArn(Root, <<"p">>), AwsReadOnlyArn, OtherAccountArn}

InitPolicyArn ==
    /\ probe \in {[a |-> a, in |-> x, stage |-> "input", arn |-> None, out |-> None] :
                    a \in ArnAccounts, x \in PolicyNames}
    /\ FetchParked

ExpandPolicyArn ==
    /\ probe.stage = "input"
    /\ probe' = [probe EXCEPT !.stage = "expanded",
                              !.arn = policyArnFromString(probe.a, probe.in)]
    /\ UNCHANGED fetchVars

NormalisePolicyArn ==
    /\ probe.stage = "expanded"
    /\ probe' = [probe EXCEPT !.stage = "normalised",
                              !.out = normalisePolicyArn(probe.a, probe.arn)]
    /\ UNCHANGED fetchVars

NextPolicyArn == ExpandPolicyArn \/ NormalisePolicyArn

SpecPolicyArn == InitPolicyArn /\ [][NextPolicyArn]_vars

\* the argument is already a full identifier
IsFullIdentifier(x) == Len(x) >= 4 /\ SubSeq(x, 1, 4) = <<"a", "r", "n", ":">>

\* C11: for every account and every bare name x (not starting with "arn:"),
\* normalisePolicyArn(policyArnFromString(x)) = x; and policyArnFromString
\* returns a full identifier unchanged.
C11_RoundTrip ==
    /\ (probe.stage = "normalised" /\ ~IsFullIdentifier(probe.in)) => probe.out = probe.in
    /\ (probe.stage # "input" /\ IsFullIdentifier(probe.in)) => probe.arn = probe.in

\* a bare name that itself contains "arn:" and a slash has made the round trip
C11_Witness ==
    /\ probe.stage = "normalised"
    /\ probe.in = <<"p", "a", "r", "n", ":">>
    /\ probe.arn = ArnIamPrefix \o probe.a.Id \o <<":">> \o PolicyKey \o <<"/">> \o probe.in
    /\ probe.out = probe.in

(***************************************************************************)
(* SpecAttached: one user, group or role with managed policies attached    *)
(* through its loop                                                        *)
(***************************************************************************)
\* most managed policies attached to a principal
MaxAttached == 3

\* references the listing delivers: own account (with and without a path), a
\* service-managed policy, another account's policy
AttachedRefs ==
    { OwnPolicyArn(Root, <<"p">>), OwnPolicyArn(CfnPath, <<"n", "e", "t">>),
      AwsReadOnlyArn, OtherAccountArn }

AttachedLists == UNION {[1..n -> AttachedRefs] : n \in 0..MaxAttached}

PrincipalKinds == {"user", "group", "role"}

InitAttached ==
    /\ probe \in [ kind : PrincipalKinds, attached : AttachedLists, stage : {"input"},
                   out : {None} ]
    /\ FetchParked

\* the loop iteration of the principal's kind, on a principal named x under
\* the root path with the attached policies of the probe
PopulatePrincipal ==
    /\ probe.stage = "input"
    /\ LET name == <<"x">>
           r == CASE probe.kind = "user" ->
                        UserIteration(FetcherConfig({}), TheAccount,
                            [ UserName |-> name, Path |-> Root, Tags |-> NoTags,
                              GroupList |-> <<>>, UserPolicyList |-> <<>>,
                              AttachedManagedPolicies |-> probe.attached ])
                  [] probe.kind = "group" ->
                        GroupIteration(FetcherConfig({}), TheAccount,
                            [ GroupName |-> name, Path |-> Root, GroupPolicyList |-> <<>>,
                              AttachedManagedPolicies |-> probe.attached ])
                  [] probe.kind = "role" ->
                        RoleIteration(FetcherConfig({}), TRUE, TheAccount,
                            [ RoleName |-> name, Path |-> Root, Tags |-> NoTags,
                              AssumeRolePolicyDocument |-> "{A}", RolePolicyList |-> <<>>,
                              AttachedManagedPolicies |-> probe.attached ])
       IN  probe' = [probe EXCEPT !.stage = "stored", !.out = r]
    /\ UNCHANGED fetchVars

NextAttached == PopulatePrincipal

SpecAttached == InitAttached /\ [][NextAttached]_vars

\* the prefix of the policy identifiers of the account fetched
OwnPolicyPrefix ==
    <<"a", "r", "n", ":", "a", "w", "s", ":", "i", "a", "m", ":", ":", "1", "2", ":",
      "p", "o", "l", "i", "c", "y", "/">>

\* the stored form of a delivered reference
StoredRef(ref) ==
    IF Len(ref) >= Len(OwnPolicyPrefix) /\ SubSeq(ref, 1, Len(OwnPolicyPrefix)) = OwnPolicyPrefix
    THEN SubSeq(ref, Len(OwnPolicyPrefix) + 1, Len(ref))
    ELSE ref

\* C14: the managed-policy references of a stored user, group or role are
\* those the listing delivered, in the same order and number, each with the
\* account's own policy prefix removed and every other reference unchanged.
C14_ReferencesNormalised ==
    probe.stage = "stored" =>
        /\ probe.out.outcome = "added"
        /\ Len(probe.out.record.Policies) = Len(probe.attached)
        /\ \A k \in 1..Len(probe.attached) :
            probe.out.record.Policies[k] = StoredRef(probe.attached[k])

\* a role with a foreign, an own-account and a service-managed reference
\* attached has been stored
C14_Witness ==
    /\ probe.stage = "stored"
    /\ probe.kind = "role"
    /\ probe.attached = <<OtherAccountArn, OwnPolicyArn(CfnPath, <<"n", "e", "t">>),
                          AwsReadOnlyArn>>
    /\ probe.out.record.Policies = <<OtherAccountArn, <<"c", "f", "n", "/", "n", "e", "t">>,
                                     AwsReadOnlyArn>>

(***************************************************************************)
(* SpecSnapshot: add operations and lookups on an AccountData              *)
(***************************************************************************)
\* most records added to the snapshot
MaxAdds == 3

\* the kinds of records found by (name, path), with their collections
SnapshotKinds ==
    [ user |-> "Users", group |-> "Groups", role |-> "Roles", policy |-> "Policies",
      profile |-> "InstanceProfiles" ]

\* (name, path) of the records added and looked up: one name under two paths,
\* and a second name
SnapshotKeys == { <<<<"a">>, Root>>, <<<<"a">>, CfnPath>>, <<<<"b">>, Root>> }

SnapshotBuckets == { <<"a">>, <<"b">> }

\* the fetcher's variables while the snapshot alone is exercised
SnapshotParked ==
    /\ world = None /\ config = None /\ fetchPc = None /\ result = None /\ managed = None
    /\ iam = None /\ s3 = None /\ iamErr = None /\ s3Err = None
    /\ lookups = None /\ descriptionFetchError = None

snapshotVars ==
    <<world, config, fetchPc, result, managed, iam, s3, iamErr, s3Err, lookups,
      descriptionFetchError>>

\* no lookup made
NoFind == [kind |-> None, name |-> <<>>, path |-> <<>>, ok |-> FALSE, r |-> Nil]

\* probe.added lists the add operations made, in order; probe.found is the
\* lookup made since the last add, if any
InitSnapshot ==
    /\ probe = [added |-> <<>>, found |-> NoFind]
    /\ data = EmptyData(TheAccount)
    /\ SnapshotParked

\* addUser .. addInstanceProfile on a new record; Serial tells the records
\* of one name and path apart
AddNamed ==
    /\ Len(probe.added) < MaxAdds
    /\ \E kind \in DOMAIN SnapshotKinds, key \in SnapshotKeys :
        LET r == [Name |-> key[1], Path |-> key[2], Serial |-> Len(probe.added) + 1]
        IN  /\ data' = CASE kind = "user" -> addUser(data, r)
                         [] kind = "group" -> addGroup(data, r)
                         [] kind = "role" -> addRole(data, r)
                         [] kind = "policy" -> addPolicy(data, r)
                         [] kind = "profile" -> addInstanceProfile(data, r)
            /\ probe' = [added |-> Append(probe.added, [kind |-> kind, r |-> r]),
                         found |-> NoFind]
    /\ UNCHANGED snapshotVars

\* addBucketPolicy on a new record
AddBucket ==
    /\ Len(probe.added) < MaxAdds
    /\ \E name \in SnapshotBuckets :
        LET r == [BucketName |-> name, Serial |-> Len(probe.added) + 1]
        IN  /\ data' = addBucketPolicy(data, r)
            /\ probe' = [added |-> Append(probe.added, [kind |-> "bucket", r |-> r]),
                         found |-> NoFind]
    /\ UNCHANGED snapshotVars

\* FindUserByName .. FindInstanceProfileByName
FindNamed ==
    /\ \E kind \in DOMAIN SnapshotKinds, key \in SnapshotKeys :
        LET res == CASE kind = "user" -> FindUserByName(data, key[1], key[2])
                     [] kind = "group" -> FindGroupByName(data, key[1], key[2])
                     [] kind = "role" -> FindRoleByName(data, key[1], key[2])
                     [] kind = "policy" -> FindPolicyByName(data, key[1], key[2])
                     [] kind = "profile" -> FindInstanceProfileByName(data, key[1], key[2])
        IN  probe' = [probe EXCEPT !.found = [kind |-> kind, name |-> key[1],
                                              path |-> key[2], ok |-> res.ok, r |-> res.r]]
    /\ UNCHANGED data
    /\ UNCHANGED snapshotVars

\* FindBucketPolicyByBucketName
FindBucket ==
    /\ \E name \in SnapshotBuckets :
        LET res == FindBucketPolicyByBucketName(data, name)
        IN  probe' = [probe EXCEPT !.found = [kind |-> "bucket", name |-> name,
                                              path |-> Root, ok |-> res.ok, r |-> res.r]]
    /\ UNCHANGED data
    /\ UNCHANGED snapshotVars

NextSnapshot == AddNamed \/ AddBucket \/ FindNamed \/ FindBucket

SpecSnapshot == InitSnapshot /\ [][NextSnapshot]_vars

\* the positions in probe.added of the adds the lookup f asks for
AddedMatches(f) ==
    { i \in 1..Len(probe.added) :
        /\ probe.added[i].kind = f.kind
        /\ IF f.kind = "bucket" THEN probe.added[i].r.BucketName = f.name
           ELSE probe.added[i].r.Name = f.name /\ probe.added[i].r.Path = f.path }

\* the records of the given kind in the order of their adds
AddedOfKind(kind) ==
    LET OfKind(x) == x.kind = kind
        sel == SelectSeq(probe.added, OfKind)
    IN  [i \in 1..Len(sel) |-> sel[i].r]

\* C21: a lookup returns (true, r) exactly when a record of its kind with its
\* name and path (bucket name) has been added, r being the earliest added, and
\* (false, nil) otherwise, whatever was added to the other kinds; after adds and
\* lookups every collection holds exactly the records added to it, in order.
C21_FindAfterAdds ==
    /\ probe.found.kind # None =>
        LET hits == AddedMatches(probe.found)
        IN  /\ probe.found.ok = (hits # {})
            /\ hits # {} =>
                \E i \in hits : /\ \A k \in hits : i <= k
                                 /\ probe.found.r = probe.added[i].r
            /\ hits = {} => probe.found.r = Nil
    /\ \A kind \in DOMAIN SnapshotKinds : data[SnapshotKinds[kind]] = AddedOfKind(kind)
    /\ data.BucketPolicies = AddedOfKind("bucket")

\* a role was added, then a policy of the same name and path, then a second
\* role of that name and path; the lookup of the role returns the first one
C21_Witness ==
    /\ Len(probe.added) = 3
    /\ [i \in 1..3 |-> probe.added[i].kind] = <<"role", "policy", "role">>
    /\ \A i \in 1..3 : probe.added[i].r.Name = <<"a">> /\ probe.added[i].r.Path = Root
    /\ probe.found.kind = "role" /\ probe.found.ok
    /\ probe.found.r = [Name |-> <<"a">>, Path |-> Root, Serial |-> 1]

====
